---- MODULE Spec2Model ----
(***************************************************************************)
(* The no-limit hold'em betting round of rlcard/games/nolimitholdem/       *)
(* round.py (class NolimitholdemRound) together with the player records   *)
(* and the dealer's pot it reads.                                         *)
(*                                                                         *)
(* Players are numbered 0 .. num_players-1 as in the source.  The player  *)
(* class and the dealer are not part of the sources at hand: bet() is     *)
(* modelled from the interface contract (remaining chips decrease by the  *)
(* committed amount), the pot is a number the dealer fixes per street.    *)
(***************************************************************************)
EXTENDS Integers, Sequences, FiniteSets

\* ---------------------------------------------------------------- bounds
MaxPlayers == 3      \* largest table modelled
MaxSteps == 3        \* proceed_round calls per hand
MaxStreet == 1       \* last street index a hand reaches

StackChoices == {5, 100}
PotChoices == {0, 6, 40}

\* ------------------------------------------------------------ vocabulary
FOLD == "FOLD"
CHECK == "CHECK"
CALL == "CALL"
RAISE_QUARTER_POT == "RAISE_QUARTER_POT"
RAISE_HALF_POT == "RAISE_HALF_POT"
RAISE_POT == "RAISE_POT"
RAISE_2POT == "RAISE_2POT"
ALL_IN == "ALL_IN"

Action ==
    {FOLD, CHECK, CALL, RAISE_QUARTER_POT, RAISE_HALF_POT, RAISE_POT,
     RAISE_2POT, ALL_IN}

ALIVE == "alive"
FOLDED == "folded"
ALLIN == "allin"

PlayerStatus == {ALIVE, FOLDED, ALLIN}

None == -1

VARIABLES
    num_players,      \* self.num_players
    game_pointer,     \* self.game_pointer (None until start_new_round)
    not_raise_num,    \* self.not_raise_num
    not_playing_num,  \* self.not_playing_num
    raised,           \* self.raised, indexed 0 .. num_players-1
    remained_chips,   \* players[i].remained_chips
    status,           \* players[i].status
    pot,              \* self.dealer.pot
    action_history,   \* the caller's record of the actions of this street
    round_counter,    \* the caller's street index
    pc,               \* "ready", "error" (exception raised), "skipping"
    steps,            \* number of proceed_round calls made in this hand
    matched,          \* players who checked, called or made the last raise
    acted,            \* players who acted since start_new_round
    start_pointer,    \* game_pointer handed to start_new_round
    start_not_playing,\* not_playing_num when the street was started
    start_inactive    \* players Folded or AllIn when the street was started

vars ==
    <<num_players, game_pointer, not_raise_num, not_playing_num, raised,
      remained_chips, status, pot, action_history, round_counter, pc, steps,
      matched, acted, start_pointer, start_not_playing, start_inactive>>

Players == 0 .. (num_players - 1)

\* ---------------------------------------------------------------- helpers
RECURSIVE MaxOver(_, _)
MaxOver(f, S) ==
    IF S = {} THEN 0
    ELSE LET x == CHOOSE y \in S : TRUE
             m == MaxOver(f, S \ {x})
         IN  IF S = {x} THEN f[x] ELSE IF f[x] > m THEN f[x] ELSE m

\* max(self.raised)
MaxRaised == MaxOver(raised, Players)

\* int(self.dealer.pot / 4), int(self.dealer.pot / 2): truncation toward zero
QuarterPot == pot \div 4
HalfPot == pot \div 2
TwoPot == pot * 2

\* player.bet(chips=amount), from the player contract: the remaining chips
\* decrease by exactly the committed amount
Bet(chips, amount) == chips - amount

\* diff of the CALL branch as it would be if it were taken after the caller's
\* raised entry has been set to the maximum
CallDiff_AfterUpdate(p) ==
    LET r == [raised EXCEPT ![p] = MaxRaised]
    IN  MaxOver(r, Players) - r[p]

\* diff of the CALL branch
CallDiff(p) == MaxRaised - raised[p]

\* the chips the acting player p commits for an action
Quantity(action, p) ==
    CASE action = CALL -> CallDiff(p)
      [] action = RAISE_QUARTER_POT -> QuarterPot
      [] action = RAISE_HALF_POT -> HalfPot
      [] action = RAISE_POT -> pot
      [] action = RAISE_2POT -> TwoPot
      [] action = ALL_IN -> remained_chips[p]
      [] OTHER -> 0

\* self.raised if the ALL_IN branch stored the committed chips instead of
\* adding them
RaisedAfter_AllInOverwrites(action, p) ==
    CASE action = CALL -> [raised EXCEPT ![p] = MaxRaised]
      [] action \in {CHECK, FOLD} -> raised
      [] action = ALL_IN -> [raised EXCEPT ![p] = Quantity(action, p)]
      [] OTHER -> [raised EXCEPT ![p] = raised[p] + Quantity(action, p)]

\* self.raised if the branch of the action wrote the entry of the next seat
RaisedAfter_NextSeat(action, p) ==
    CASE action = CALL -> [raised EXCEPT ![(p + 1) % num_players] = MaxRaised]
      [] action \in {CHECK, FOLD} -> raised
      [] OTHER -> [raised EXCEPT ![(p + 1) % num_players] =
                                     raised[p] + Quantity(action, p)]

\* self.raised after the branch of the action
RaisedAfter(action, p) ==
    CASE action = CALL -> [raised EXCEPT ![p] = MaxRaised]
      [] action \in {CHECK, FOLD} -> raised
      [] OTHER -> [raised EXCEPT ![p] = raised[p] + Quantity(action, p)]

\* self.not_raise_num after the branch of the action
NotRaiseAfter(action) ==
    CASE action \in {CHECK, CALL} -> not_raise_num + 1
      [] action = FOLD -> not_raise_num
      [] OTHER -> 1

\* the status of the acting player, made AllIn by the ALL_IN action only
StatusAfter_OnlyByAllIn(action, st, chips) ==
    IF action = FOLD THEN FOLDED
    ELSE IF chips = 0 /\ st # FOLDED /\ action = ALL_IN THEN ALLIN ELSE st

\* the status of the acting player after the action: Folded by a Fold,
\* otherwise AllIn when no chips remain and the player is not folded
StatusAfter(action, st, chips) ==
    IF action = FOLD THEN FOLDED
    ELSE IF chips = 0 /\ st # FOLDED THEN ALLIN ELSE st

\* the skip loop if it also passed over the players that are all in: the
\* first Alive seat from p on, p itself when there is none
SkipFolded_SkipAllIn(p, st) ==
    LET live == {k \in 0 .. (num_players - 1) :
                    st[(p + k) % num_players] = ALIVE}
    IN  IF live = {} THEN p
        ELSE (p + (CHOOSE k \in live : \A j \in live : k <= j)) % num_players

\* the pointer advanced by one seat without looking at the statuses
SkipFolded_NoSkip(p, st) == p

\* the while loop that skips the folded players, started at pointer p with
\* the statuses st; only used when some player is not folded
RECURSIVE SkipFolded(_, _)
SkipFolded(p, st) ==
    IF st[p] = FOLDED THEN SkipFolded((p + 1) % num_players, st) ELSE p

\* is_over()
IsOver == not_raise_num + not_playing_num >= num_players

\* get_nolimit_legal_actions(players, action_history, round_counter)
LastAction == action_history[Len(action_history)]

\* the removal of the raises without the test of RAISE_POT against the chips
RaiseRemoved_NoPotTest ==
    LET p == game_pointer
        diff == MaxRaised - raised[p]
        chips == remained_chips[p]
    IN  IF diff > 0 /\ diff >= chips
        THEN {RAISE_HALF_POT, RAISE_POT, ALL_IN, RAISE_2POT, RAISE_QUARTER_POT}
        ELSE LET byChips ==
                     (IF TwoPot > chips THEN {RAISE_2POT} ELSE {})
                     \cup (IF HalfPot > chips THEN {RAISE_HALF_POT} ELSE {})
                     \cup (IF QuarterPot > chips THEN {RAISE_QUARTER_POT} ELSE {})
                 noRaise ==
                     (IF HalfPot + raised[p] <= MaxRaised
                      THEN {RAISE_HALF_POT} ELSE {})
                     \cup (IF QuarterPot + raised[p] <= MaxRaised
                           THEN {RAISE_QUARTER_POT} ELSE {})
             IN  byChips \cup noRaise

\* lines 155-186: the raises removed from the full action list
RaiseRemoved ==
    LET p == game_pointer
        diff == MaxRaised - raised[p]
        chips == remained_chips[p]
    IN  IF diff > 0 /\ diff >= chips
        THEN {RAISE_HALF_POT, RAISE_POT, ALL_IN, RAISE_2POT, RAISE_QUARTER_POT}
        ELSE LET byChips ==
                     (IF TwoPot > chips THEN {RAISE_2POT} ELSE {})
                     \cup (IF pot > chips THEN {RAISE_POT} ELSE {})
                     \cup (IF HalfPot > chips THEN {RAISE_HALF_POT} ELSE {})
                     \cup (IF QuarterPot > chips THEN {RAISE_QUARTER_POT} ELSE {})
                 noRaise ==
                     (IF HalfPot + raised[p] <= MaxRaised
                      THEN {RAISE_HALF_POT} ELSE {})
                     \cup (IF QuarterPot + raised[p] <= MaxRaised
                           THEN {RAISE_QUARTER_POT} ELSE {})
             IN  byChips \cup noRaise

\* the street rules without the rule for the first action after the flop
CheckCallRemoved_NoPostflopRule ==
    IF round_counter = 0
       /\ (Len(action_history) = 0 \/ LastAction \notin {CHECK, CALL})
    THEN {CHECK}
    ELSE IF Len(action_history) # 0 /\ LastAction \in {CHECK, CALL}
    THEN {CALL}
    ELSE IF Len(action_history) # 0 /\ LastAction \notin {CHECK, CALL}
    THEN {CHECK}
    ELSE {}

\* the street rules with the first two keyed on the wrong street
CheckCallRemoved_WrongStreet ==
    IF round_counter # 0
       /\ (Len(action_history) = 0 \/ LastAction \notin {CHECK, CALL})
    THEN {CHECK}
    ELSE IF round_counter = 0 /\ Len(action_history) = 0
    THEN {CALL}
    ELSE IF Len(action_history) # 0 /\ LastAction \in {CHECK, CALL}
    THEN {CALL}
    ELSE IF Len(action_history) # 0 /\ LastAction \notin {CHECK, CALL}
    THEN {CHECK}
    ELSE {}

\* lines 188-202: the one of Check and Call removed from the full action list
CheckCallRemoved ==
    IF round_counter = 0
       /\ (Len(action_history) = 0 \/ LastAction \notin {CHECK, CALL})
    THEN {CHECK}
    ELSE IF round_counter # 0 /\ Len(action_history) = 0
    THEN {CALL}
    ELSE IF Len(action_history) # 0 /\ LastAction \in {CHECK, CALL}
    THEN {CALL}
    ELSE IF Len(action_history) # 0 /\ LastAction \notin {CHECK, CALL}
    THEN {CHECK}
    ELSE {}

LegalActions == (Action \ RaiseRemoved) \ CheckCallRemoved

\* ------------------------------------------------------------------- Init
\* __init__: the state after construction, with the players of a fresh hand
Init ==
    /\ num_players \in 2 .. MaxPlayers
    /\ game_pointer = None
    /\ not_raise_num = 0
    /\ not_playing_num = 0
    /\ raised = [i \in Players |-> 0]
    /\ remained_chips \in [Players -> StackChoices]
    /\ status = [i \in Players |-> ALIVE]
    /\ pot \in PotChoices
    /\ action_history = <<>>
    /\ round_counter = 0
    /\ pc = "ready"
    /\ steps = 0
    /\ matched = {}
    /\ acted = {}
    /\ start_pointer = None
    /\ start_not_playing = 0
    /\ start_inactive = {}

\* the seeds a caller hands to start_new_round: none, all zero, blinds
SeedChoices ==
    {<<>>,
     [i \in Players |-> 0],
     [i \in Players |-> IF i = 0 THEN 1 ELSE IF i = 1 THEN 2 ELSE 0]}

\* self.raised of the new round when an absent seed keeps the old amounts
SeededRaised_KeepOld(seed) == IF seed # <<>> THEN seed ELSE raised

\* self.raised of the new round: the seed when one is given (a list that is
\* not empty), else zeros
SeededRaised(seed) == IF seed # <<>> THEN seed ELSE [i \in Players |-> 0]

\* self.not_playing_num of the new round if start_new_round recounted it as
\* the folded players
NotPlayingAtStart_Reset ==
    Cardinality({i \in Players : status[i] = FOLDED})

\* self.not_playing_num of the new round: start_new_round does not assign it
NotPlayingAtStart == not_playing_num

\* start_new_round(game_pointer, raised)
StartNewRound(ptr, seed) ==
    /\ pc = "ready"
    /\ game_pointer = None \/ round_counter < MaxStreet
    /\ game_pointer' = ptr
    /\ not_raise_num' = 0
    /\ raised' = SeededRaised(seed)
    /\ not_playing_num' = NotPlayingAtStart
    /\ round_counter' = IF game_pointer = None THEN 0 ELSE round_counter + 1
    /\ action_history' = <<>>
    /\ pot' \in IF game_pointer = None THEN {pot}
               ELSE {q \in PotChoices : q >= pot}
    /\ matched' = {}
    /\ acted' = {}
    /\ start_pointer' = ptr
    /\ start_not_playing' = not_playing_num
    /\ start_inactive' = {i \in Players : status[i] # ALIVE}
    /\ UNCHANGED <<num_players, remained_chips, status, pc, steps>>

\* proceed_round(players, action)
ProceedRound(action) ==
    /\ pc = "ready"
    /\ game_pointer # None
    /\ steps < MaxSteps
    /\ LET p == game_pointer
           chips1 == Bet(remained_chips[p], Quantity(action, p))
           st1 == IF action = FOLD THEN FOLDED ELSE status[p]
           st2 == StatusAfter(action, status[p], chips1)
           status2 == [status EXCEPT ![p] = st2]
           next == (p + 1) % num_players
       IN  /\ raised' = RaisedAfter(action, p)
           /\ remained_chips' = [remained_chips EXCEPT ![p] = chips1]
           /\ steps' = steps + 1
           /\ IF chips1 < 0
              THEN \* raise Exception("Player in negative stake")
                   /\ pc' = "error"
                   /\ not_raise_num' = NotRaiseAfter(action)
                   /\ status' = [status EXCEPT ![p] = st1]
                   /\ UNCHANGED <<game_pointer, not_playing_num,
                                  action_history, matched, acted>>
              ELSE /\ status' = status2
                   /\ not_playing_num' =
                          not_playing_num
                          + (IF st2 = ALLIN THEN 1 ELSE 0)
                          + (IF st2 = FOLDED THEN 1 ELSE 0)
                   /\ not_raise_num' =
                          NotRaiseAfter(action) - (IF st2 = ALLIN THEN 1 ELSE 0)
                   /\ IF \A i \in Players : status2[i] = FOLDED
                      THEN /\ pc' = "skipping"
                           /\ game_pointer' = next
                      ELSE /\ pc' = "ready"
                           /\ game_pointer' = SkipFolded(next, status2)
                   /\ action_history' = Append(action_history, action)
                   /\ matched' =
                          CASE action \in {CHECK, CALL} -> matched \cup {p}
                            [] action = FOLD -> matched
                            [] OTHER -> {p}
                   /\ acted' = acted \cup {p}
    /\ UNCHANGED <<num_players, pot, round_counter, start_pointer,
                   start_not_playing, start_inactive>>

\* one more turn of the skip loop when every player is folded
SkipFoldedPlayer ==
    /\ pc = "skipping"
    /\ status[game_pointer] = FOLDED
    /\ game_pointer' = (game_pointer + 1) % num_players
    /\ UNCHANGED <<num_players, not_raise_num, not_playing_num, raised,
                   remained_chips, status, pot, action_history, round_counter,
                   pc, steps, matched, acted, start_pointer,
                   start_not_playing, start_inactive>>

\* the first start_new_round of a hand
StartFirstRound(ptr, seed) ==
    /\ game_pointer = None
    /\ StartNewRound(ptr, seed)

Next ==
    \/ \E ptr \in Players, seed \in SeedChoices : StartFirstRound(ptr, seed)
    \/ \E action \in Action : ProceedRound(action)
    \/ SkipFoldedPlayer

Spec == Init /\ [][Next]_vars

\* the caller contract: actions come from the legal actions of the player at
\* the pointer and are applied only while the round is not over; the next
\* street is started once the round is over
ProceedLegal(action) ==
    /\ ~IsOver
    /\ game_pointer # None
    /\ action \in LegalActions
    /\ ProceedRound(action)

StartNextRound(ptr, seed) ==
    /\ game_pointer # None
    /\ IsOver
    /\ StartNewRound(ptr, seed)

NextLegal ==
    \/ \E ptr \in Players, seed \in SeedChoices : StartFirstRound(ptr, seed)
    \/ \E ptr \in Players, seed \in SeedChoices : StartNextRound(ptr, seed)
    \/ \E action \in Action : ProceedLegal(action)
    \/ SkipFoldedPlayer

LegalSpec == Init /\ [][NextLegal]_vars

\* a hand in which the caller starts streets and applies actions at will
NextHand ==
    \/ \E ptr \in Players, seed \in SeedChoices : StartNewRound(ptr, seed)
    \/ \E action \in Action : ProceedRound(action)
    \/ SkipFoldedPlayer

HandSpec == Init /\ [][NextHand]_vars

\* ----------------------------------------------------------------- claims
Started == pc = "ready" /\ game_pointer # None

\* C1: is_over() is true exactly when every player who is neither Folded nor
\* AllIn has checked or called since the most recent raise (the player who
\* made that raise counts as having matched it), or no such player is left.
C1_OverIffAllMatched ==
    Started =>
        (IsOver <=> \A i \in Players : status[i] = ALIVE => i \in matched)

\* C2: after every proceed_round call that returns, game_pointer does not
\* reference a Folded player.
C2_PointerNotFolded ==
    (pc = "ready" /\ action_history # <<>>) => status[game_pointer] # FOLDED

\* C2 witness: player 0 folded first, players 1 and 2 acted without folding,
\* and the pointer skipped player 0 on its way round.
C2_Witness ==
    /\ pc = "ready"
    /\ num_players = 3
    /\ Len(action_history) = 3
    /\ acted = {0, 1, 2}
    /\ action_history[1] = FOLD
    /\ status = [i \in Players |-> IF i = 0 THEN FOLDED ELSE ALIVE]
    /\ game_pointer = 1

\* C3: with legal actions applied only while the round is not over,
\* proceed_round always returns: the loop that skips the folded players never
\* runs with every player folded.
C3_SkipLoopTerminates == pc # "skipping"

\* C4: a street started at an Alive player's seat with not_playing_num players
\* already Folded or AllIn, in which every action is a Check, is over after
\* exactly num_players - not_playing_num Checks, not earlier and not later,
\* and then no Alive player is left who has not acted.
ChecksOnly == \A k \in 1 .. Len(action_history) : action_history[k] = CHECK

C4_CheckRoundExact ==
    (/\ Started
     /\ ChecksOnly
     /\ start_pointer \notin start_inactive
     /\ start_not_playing = Cardinality(start_inactive))
    => /\ IsOver <=> Len(action_history) >= num_players - start_not_playing
       /\ IsOver => \A i \in Players : status[i] = ALIVE => i \in acted

\* C5: with legal actions only, no player's remaining chips go below zero.
C5_NoNegativeChips == \A i \in Players : remained_chips[i] >= 0

\* C6: every action other than Fold and Check strictly decreases the acting
\* player's remaining chips by exactly the quantity computed for the action,
\* and that quantity does not exceed the chips the player had before.
C6_CommitWithinStack ==
    [][\A a \in Action \ {FOLD, CHECK} :
          ProceedRound(a) =>
              LET p == game_pointer
                  q == Quantity(a, p)
              IN  /\ remained_chips'[p] < remained_chips[p]
                  /\ remained_chips'[p] = remained_chips[p] - q
                  /\ q <= remained_chips[p]]_vars

\* C7: after a Call the caller's raised entry equals max(raised), both the
\* maximum before the call and the maximum after it, the caller has committed
\* max(raised) - raised[caller] chips, and no other raised entry has changed.
C7_CallMatchesMax ==
    [][ProceedRound(CALL) =>
          LET p == game_pointer
          IN  /\ raised'[p] = MaxRaised
              /\ raised'[p] = MaxRaised'
              /\ remained_chips[p] - remained_chips'[p] = MaxRaised - raised[p]
              /\ \A i \in Players \ {p} : raised'[i] = raised[i]]_vars

\* C7 witness: player 0 called the big blind of 2 from a small blind of 1.
C7_Witness ==
    /\ pc = "ready"
    /\ action_history = <<CALL>>
    /\ acted = {0}
    /\ raised[0] = 2
    /\ raised[1] = 2
    /\ remained_chips[0] \in {4, 99}

\* the two-player scenario: stacks [100, 100], pot 0, street 0, no seeded
\* raises, empty action history, player 0 to act
HeadsUpOpening ==
    /\ Started
    /\ num_players = 2
    /\ remained_chips = [i \in Players |-> 100]
    /\ status = [i \in Players |-> ALIVE]
    /\ raised = [i \in Players |-> 0]
    /\ pot = 0
    /\ round_counter = 0
    /\ action_history = <<>>
    /\ game_pointer = 0
    /\ not_raise_num = 0
    /\ not_playing_num = 0

PotRaises == {RAISE_QUARTER_POT, RAISE_HALF_POT, RAISE_POT, RAISE_2POT}

HeadsUpAfterAllIn ==
    /\ Started
    /\ num_players = 2
    /\ remained_chips = [i \in Players |-> IF i = 0 THEN 0 ELSE 100]
    /\ status = [i \in Players |-> IF i = 0 THEN ALLIN ELSE ALIVE]
    /\ raised = [i \in Players |-> IF i = 0 THEN 100 ELSE 0]
    /\ pot = 0
    /\ round_counter = 0
    /\ action_history = <<ALL_IN>>
    /\ game_pointer = 1
    /\ not_raise_num = 0
    /\ not_playing_num = 1

\* C9: in the two-player scenario player 0's AllIn leaves player 0 with 0
\* chips, status AllIn and raised[0] = 100, and player 1 with Call but not
\* Check among the legal actions; player 1's Call then leaves player 1 with 0
\* chips and status AllIn, and the round is over.
C9_AllInThenCall ==
    [][/\ (HeadsUpOpening /\ ProceedRound(ALL_IN))
          => /\ HeadsUpAfterAllIn'
             /\ CALL \in LegalActions'
             /\ CHECK \notin LegalActions'
       /\ (HeadsUpAfterAllIn /\ ProceedRound(CALL))
          => /\ pc' = "ready"
             /\ remained_chips'[1] = 0
             /\ status'[1] = ALLIN
             /\ IsOver']_vars

\* C9 witness: both players are all-in after AllIn and Call.
C9_Witness ==
    /\ pc = "ready"
    /\ num_players = 2
    /\ pot = 0
    /\ round_counter = 0
    /\ action_history = <<ALL_IN, CALL>>
    /\ raised = [i \in Players |-> 100]
    /\ remained_chips = [i \in Players |-> 0]
    /\ status = [i \in Players |-> ALLIN]
    /\ IsOver

\* the chips a pot-fraction raise requires
Requirement(a) ==
    CASE a = RAISE_QUARTER_POT -> pot \div 4
      [] a = RAISE_HALF_POT -> pot \div 2
      [] a = RAISE_POT -> pot
      [] a = RAISE_2POT -> pot * 2

NoRaiseBeyondStack ==
    \A a \in PotRaises \cap LegalActions :
        Requirement(a) <= remained_chips[game_pointer]

ShortStack == pot = 40 /\ remained_chips[game_pointer] = 5

\* C10 as stated: no legal pot-fraction raise requires more chips than the
\* player at the pointer has; with pot 40 and 5 chips RaiseQuarterPot,
\* RaiseHalfPot and RaisePot are excluded and AllIn is legal.
C10_ShortStackKeepsAllIn ==
    Started =>
        /\ NoRaiseBeyondStack
        /\ ShortStack =>
               /\ {RAISE_QUARTER_POT, RAISE_HALF_POT, RAISE_POT}
                      \cap LegalActions = {}
               /\ ALL_IN \in LegalActions

\* C10 amended: as stated, except that with pot 40 and 5 chips AllIn is legal
\* exactly when the player does not owe a positive amount of 5 chips or more;
\* a player who owes that much is left without AllIn as well.
C10_ShortStackAllInUnlessOwing ==
    Started =>
        /\ NoRaiseBeyondStack
        /\ ShortStack =>
               /\ {RAISE_QUARTER_POT, RAISE_HALF_POT, RAISE_POT}
                      \cap LegalActions = {}
               /\ ALL_IN \in LegalActions
                      <=> MaxRaised - raised[game_pointer] < 5

\* C10 witness: pot 40, 5 chips, nothing owed: the three raises are out and
\* AllIn is in.
C10_Witness ==
    /\ Started
    /\ ShortStack
    /\ MaxRaised = raised[game_pointer]
    /\ ALL_IN \in LegalActions
    /\ RAISE_2POT \notin LegalActions

\* C11: every pot-fraction raise among the legal actions raises: applying it
\* would lift raised[current] strictly above the current max(raised).
C11_LegalRaiseRaises ==
    Started =>
        \A a \in PotRaises \cap LegalActions :
            raised[game_pointer] + Quantity(a, game_pointer) > MaxRaised

\* C12: on every street and after every action history exactly one of Check
\* and Call is removed: the legal actions never contain both and never lack
\* both.
C12_ExactlyOneOfCheckCall ==
    Started =>
        /\ Cardinality(CheckCallRemoved) = 1
        /\ (CHECK \in LegalActions) # (CALL \in LegalActions)

\* C12 witness: the first action of a later street, where Call is removed and
\* Check is legal.
C12_Witness ==
    /\ Started
    /\ round_counter # 0
    /\ action_history = <<>>
    /\ CHECK \in LegalActions
    /\ CALL \notin LegalActions

\* C13: player statuses change one way only: a Folded player stays Folded and
\* an AllIn player stays AllIn, whatever is applied.
C13_StatusOneWay ==
    [][\A i \in Players :
          /\ status[i] = FOLDED => status'[i] = FOLDED
          /\ status[i] = ALLIN => status'[i] = ALLIN]_vars

\* C14: an action that is not among the legal actions of the player at the
\* pointer is refused with an error: raised amounts, chips, statuses, counters
\* and pointer stay as they were.
C14_IllegalActionRefused ==
    [][\A a \in Action :
          (Started /\ a \notin LegalActions /\ ProceedRound(a)) =>
              /\ pc' = "error"
              /\ UNCHANGED <<raised, remained_chips, status, not_raise_num,
                             not_playing_num, game_pointer>>]_vars

\* C15: right after start_new_round(ptr, seed), from whatever state it is
\* called in, raised is the seed (an all-zero seed included), or all zero when
\* no seed is given, not_raise_num is 0 and game_pointer is ptr.
C15_StartRoundResets ==
    [][\A ptr \in Players, seed \in SeedChoices :
          StartNewRound(ptr, seed) =>
              /\ raised' = IF seed = <<>> THEN [i \in Players |-> 0] ELSE seed
              /\ not_raise_num' = 0
              /\ game_pointer' = ptr]_vars

\* C15 witness: a later street has just been started after play on the first
\* one, seeded with the blinds.
C15_Witness ==
    /\ Started
    /\ round_counter = 1
    /\ steps > 0
    /\ action_history = <<>>
    /\ raised = [i \in Players |-> IF i = 0 THEN 1 ELSE IF i = 1 THEN 2 ELSE 0]
    /\ not_raise_num = 0
    /\ game_pointer = start_pointer

\* C16: start_new_round leaves not_playing_num as it is, and not_playing_num
\* never decreases over any sequence of start_new_round and proceed_round
\* calls.
C16_InactiveCountPersists ==
    [][/\ not_playing_num' >= not_playing_num
       /\ \A ptr \in Players, seed \in SeedChoices :
              StartNewRound(ptr, seed) => not_playing_num' = not_playing_num]_vars

\* C16 witness: a later street has been started with a player counted as
\* inactive on the street before.
C16_Witness ==
    /\ Started
    /\ round_counter = 1
    /\ action_history = <<>>
    /\ not_playing_num > 0
    /\ start_not_playing = not_playing_num

\* C17: from a fresh round object on, not_playing_num equals the number of
\* players whose status is Folded or AllIn, each such player counted once.
C17_InactiveCountExact ==
    Started =>
        not_playing_num = Cardinality({i \in Players : status[i] # ALIVE})

\* C18: the pointer proceed_round returns is a seat in 0..n-1, and it is the
\* first seat cyclically after the acting player whose status is not Folded;
\* AllIn players are not skipped.
C18_PointerIsNextNotFolded ==
    [][\A a \in Action :
          (ProceedRound(a) /\ pc' = "ready") =>
              /\ game_pointer' \in Players
              /\ \E k \in 1 .. num_players :
                    /\ game_pointer' = (game_pointer + k) % num_players
                    /\ status'[game_pointer'] # FOLDED
                    /\ \A j \in 1 .. (k - 1) :
                          status'[(game_pointer + j) % num_players] = FOLDED]_vars

\* C18 witness: an action has been applied and the turn went to the next
\* seat, which is all in, with a live player further on.
C18_Witness ==
    /\ Started
    /\ num_players = 3
    /\ action_history # <<>>
    /\ status[game_pointer] = ALLIN
    /\ game_pointer \notin matched
    /\ \E i \in Players : status[i] = ALIVE /\ i \in matched

\* C19: within a round raised[i] + remained_chips[i] stays the same for every
\* player i: a commit takes from the stack exactly what it adds to raised.
C19_RaisedPlusChipsConstant ==
    [][\A a \in Action :
          ProceedRound(a) =>
              \A i \in Players :
                  raised'[i] + remained_chips'[i]
                      = raised[i] + remained_chips[i]]_vars

\* C19 witness: a player seeded with a blind has gone all in, and a player
\* has called a bet.
C19_Witness ==
    /\ Started
    /\ Len(action_history) = 2
    /\ action_history[1] = ALL_IN
    /\ action_history[2] = CALL
    /\ \E i \in Players :
          /\ status[i] = ALLIN
          /\ raised[i] > 0
          /\ raised[i] \notin StackChoices
    /\ \E i \in Players : status[i] = ALIVE /\ i \in matched /\ raised[i] > 0

\* C20: proceed_round changes the chips, the status and the raised entry of
\* the acting player only; every other player keeps all three.
C20_OnlyActorChanges ==
    [][\A a \in Action :
          ProceedRound(a) =>
              \A i \in Players \ {game_pointer} :
                  /\ remained_chips'[i] = remained_chips[i]
                  /\ status'[i] = status[i]
                  /\ raised'[i] = raised[i]]_vars

\* C20 witness: one player has raised the pot and another has folded, the
\* third being untouched.
C20_Witness ==
    /\ Started
    /\ num_players = 3
    /\ action_history = <<RAISE_POT, FOLD>>
    /\ pot > 0
    /\ \E i, j, k \in Players :
          /\ raised[i] = pot /\ status[i] = ALIVE
          /\ status[j] = FOLDED /\ raised[j] = 0
          /\ k = game_pointer /\ k # i /\ k # j
          /\ status[k] = ALIVE /\ raised[k] = 0

====
